---- MODULE Spec2Model ----
(***************************************************************************)
(* Model of scripts/bump_version.py (with scripts/util.py): one run of the *)
(* command line  bump_version.py <major|minor|patch> <repository_owner>.   *)
(*                                                                         *)
(* Text is a sequence of tokens.  A token is one character of a version    *)
(* string ("0", "9", ".", "x", "sup2") or one literal chunk of the         *)
(* script's patterns ("version: ", "## [Unreleased]", ...).  No chunk is a *)
(* proper part of another pattern, so Python's character-level             *)
(* str.replace and the token-level Replace below find the same             *)
(* occurrences.  The token "sup2" stands for U+00B2 SUPERSCRIPT TWO, a     *)
(* character for which str.isdigit() is True and int() raises ValueError.  *)
(***************************************************************************)
EXTENDS Integers, Sequences, FiniteSets, TLC

VARIABLES
    argv,             \* sys.argv[1:]
    files,            \* working-tree content of the five target files
    before,           \* content of the five files when the run started
    git,              \* the repository: tags, changelog at tag and at HEAD
    pc,               \* position of the run in the script
    current_version,  \* local of bump_version
    next_version,     \* local of bump_version
    stdout,           \* lines printed to stdout
    stderr,           \* messages printed to stderr
    exit_code,        \* NoExit while running, then 0 or 1
    events            \* file writes, subprocess calls and reports, in order

vars == <<argv, files, before, git, pc, current_version, next_version,
          stdout, stderr, exit_code, events>>

-----------------------------------------------------------------------------
(* Bounds of the model *)

MaxVerLen == 6
MaxBlocks == 2
MaxChangelogBlocks == 3

-----------------------------------------------------------------------------
(* Characters and strings *)

DecimalChars == <<"0", "1", "2", "3", "4", "5", "6", "7", "8", "9">>

IsDecimal(c) == \E i \in 1..Len(DecimalChars) : DecimalChars[i] = c

\* str.isdigit for one character: the decimal digits and the superscript two
isdigit(c) == IsDecimal(c) \/ c = "sup2"

DigitValue(c) == (CHOOSE i \in 1..Len(DecimalChars) : DecimalChars[i] = c) - 1

\* int(s) succeeds on a non-empty string of decimal digits
IntOk(s) == Len(s) > 0 /\ \A i \in 1..Len(s) : IsDecimal(s[i])

RECURSIVE int(_)
int(s) ==
    IF Len(s) = 0 THEN 0
    ELSE 10 * int(SubSeq(s, 1, Len(s) - 1)) + DigitValue(s[Len(s)])

RECURSIVE str(_)
str(n) ==
    IF n < 10 THEN <<DecimalChars[n + 1]>>
    ELSE Append(str(n \div 10), DecimalChars[(n % 10) + 1])

\* s.split(sep) for a one-character separator
RECURSIVE split(_, _)
split(s, sep) ==
    IF \A i \in 1..Len(s) : s[i] # sep THEN <<s>>
    ELSE LET k == CHOOSE i \in 1..Len(s) :
                      s[i] = sep /\ \A j \in 1..(i - 1) : s[j] # sep
         IN  <<SubSeq(s, 1, k - 1)>> \o split(SubSeq(s, k + 1, Len(s)), sep)

\* does old occur in s at position i
OccursAt(s, old, i) ==
    /\ i >= 1
    /\ i + Len(old) - 1 <= Len(s)
    /\ SubSeq(s, i, i + Len(old) - 1) = old

RECURSIVE ReplaceAll(_, _, _)
\* s.replace(old, new): every occurrence, left to right, without overlap
ReplaceAll(s, old, new) ==
    IF \A i \in 1..Len(s) : ~OccursAt(s, old, i) THEN s
    ELSE LET k == CHOOSE i \in 1..Len(s) :
                      OccursAt(s, old, i) /\ \A j \in 1..(i - 1) : ~OccursAt(s, old, j)
         IN  SubSeq(s, 1, k - 1) \o new
                 \o ReplaceAll(SubSeq(s, k + Len(old), Len(s)), old, new)

\* mutant of ReplaceFirst: the count argument forgotten
ReplaceEvery(s, old, new) == ReplaceAll(s, old, new)

\* s.replace(old, new, 1): the first occurrence only
ReplaceFirst(s, old, new) ==
    IF \A i \in 1..Len(s) : ~OccursAt(s, old, i) THEN s
    ELSE LET k == CHOOSE i \in 1..Len(s) :
                      OccursAt(s, old, i) /\ \A j \in 1..(i - 1) : ~OccursAt(s, old, j)
         IN  SubSeq(s, 1, k - 1) \o new \o SubSeq(s, k + Len(old), Len(s))

RECURSIVE join(_, _)
\* sep.join(parts)
join(parts, sep) ==
    IF Len(parts) = 0 THEN <<>>
    ELSE IF Len(parts) = 1 THEN parts[1]
    ELSE parts[1] \o <<sep>> \o join(Tail(parts), sep)

-----------------------------------------------------------------------------
(* util.py *)

\* error(msg): one "error: <msg>" line on stderr, then sys.exit(1)
error(done, msg) ==
    /\ stderr' = Append(stderr, <<"error:">> \o msg)
    /\ events' = Append(done, <<"stderr">>)
    /\ exit_code' = 1
    /\ pc' = "exit"

-----------------------------------------------------------------------------
(* get_next_version *)

all_digits(c) == \A i \in 1..Len(c) : isdigit(c[i])
is_empty(c) == Len(c) = 0
is_int(c) == ~is_empty(c) /\ all_digits(c)

\* the check of lines 27-30
VersionAccepted(current) ==
    LET components == split(current, ".")
    IN  /\ Len(components) = 3
        /\ \A i \in 1..Len(components) : is_int(components[i])

\* mutant of BumpComponents: the later components are not reset
BumpComponentsNoReset(bump_comp_idx, current) ==
    LET components == split(current, ".")
    IN  join([components EXCEPT
                 ![bump_comp_idx + 1] = str(int(components[bump_comp_idx + 1]) + 1)], ".")

\* lines 33-36, for an accepted version whose bumped component int() parses
BumpComponents(bump_comp_idx, current) ==
    LET components == split(current, ".")
        bumped == [components EXCEPT
                      ![bump_comp_idx + 1] = str(int(components[bump_comp_idx + 1]) + 1)]
        padded == SubSeq(bumped, 1, bump_comp_idx + 1) \o <<str(0), str(0), str(0)>>
    IN  join(SubSeq(padded, 1, 3), ".")

\* the outcome of get_next_version: the invalid-version error, an uncaught
\* ValueError of int(), or the next version
get_next_version(bump_comp_idx, current) ==
    IF ~VersionAccepted(current)
    THEN [kind |-> "invalid", value |-> <<>>]
    ELSE IF ~IntOk(split(current, ".")[bump_comp_idx + 1])
    THEN [kind |-> "ValueError", value |-> <<>>]
    ELSE [kind |-> "ok", value |-> BumpComponents(bump_comp_idx, current)]

-----------------------------------------------------------------------------
(* The files and their patterns *)

FileNames == {"VERSION", "hocfile.yaml", "frontend/Cargo.toml",
              "backend/Cargo.toml", "CHANGELOG.md"}

HocfilePattern(version) == <<"version: ">> \o version
ManifestPattern(version) == <<"version = \"">> \o version \o <<"\"">>

HEADER_KEY == <<"## [Unreleased]">>
NewHeader(version, formatted_date) == <<"## [">> \o version \o <<"] - ", formatted_date>>
ReleaseBlock(version, formatted_date, repository_owner) ==
    HEADER_KEY \o <<"\n\n">> \o NewHeader(version, formatted_date)
        \o <<"\n\nImage tag: ghcr.io/", repository_owner, "/signal-inspector-backend:">>
        \o version

\* get_version.get_version: the content of the VERSION file
get_current_version == files["VERSION"]

\* lines 121-127: the index of the component named on the command line
bump_comp_idx ==
    IF argv[1] = "major" THEN 0
    ELSE IF argv[1] = "minor" THEN 1
    ELSE 2

NoExit == -1

-----------------------------------------------------------------------------
(* The run *)

\* an uncaught exception: the traceback on stderr, exit status 1
uncaught(done, exception) ==
    /\ stderr' = Append(stderr, <<"Traceback", exception>>)
    /\ events' = Append(done, <<"stderr">>)
    /\ exit_code' = 1
    /\ pc' = "exit"

\* lines 115-129
Main ==
    /\ pc = "main"
    /\ IF Len(argv) < 1 THEN error(events, <<"component argument missing">>)
       ELSE IF Len(argv) < 2 THEN error(events, <<"repository owner argument missing">>)
       ELSE IF argv[1] \notin {"major", "minor", "patch"}
            THEN error(events, <<"\"major\", \"minor\" or \"patch\" expected">>)
       ELSE /\ pc' = "bump_version"
            /\ UNCHANGED <<stderr, exit_code, events>>
    /\ UNCHANGED <<argv, files, before, git, current_version, next_version, stdout>>

\* lines 103-104
ComputeVersions ==
    /\ pc = "bump_version"
    /\ current_version' = get_current_version
    /\ LET r == get_next_version(bump_comp_idx, get_current_version)
       IN  IF r.kind = "invalid"
           THEN /\ error(events, <<"\"">> \o get_current_version
                                     \o <<"\" version number invalid">>)
                /\ UNCHANGED next_version
           ELSE IF r.kind = "ValueError"
           THEN /\ uncaught(events, "ValueError")
                /\ UNCHANGED next_version
           ELSE /\ next_version' = r.value
                /\ pc' = "update_version_file"
                /\ UNCHANGED <<stderr, exit_code, events>>
    /\ UNCHANGED <<argv, files, before, git, stdout>>

\* open(path, "w"); f.write(content)
write(done, path, content) ==
    /\ files' = [files EXCEPT ![path] = content]
    /\ events' = Append(done, <<"write", path>>)

\* lines 39-44, called on line 106
update_version_file ==
    /\ pc = "update_version_file"
    /\ write(events, "VERSION", next_version)
    /\ pc' = "update_hocfile"
    /\ UNCHANGED <<argv, before, git, current_version, next_version,
                   stdout, stderr, exit_code>>

\* lines 47-55, called on line 107
update_hocfile ==
    /\ pc = "update_hocfile"
    /\ write(events, "hocfile.yaml",
             ReplaceFirst(files["hocfile.yaml"], HocfilePattern(current_version),
                          HocfilePattern(next_version)))
    /\ pc' = "update_frontend"
    /\ UNCHANGED <<argv, before, git, current_version, next_version,
                   stdout, stderr, exit_code>>

\* mutant of update_manifest: the hocfile's pattern looked for in a manifest
update_manifest_hocfile_pattern(path) ==
    write(events, path,
          ReplaceFirst(files[path], HocfilePattern(current_version),
                       HocfilePattern(next_version)))

\* lines 58-66
update_manifest(path) ==
    write(events, path,
          ReplaceFirst(files[path], ManifestPattern(current_version),
                       ManifestPattern(next_version)))

\* line 108
update_frontend ==
    /\ pc = "update_frontend"
    /\ update_manifest("frontend/Cargo.toml")
    /\ pc' = "update_backend"
    /\ UNCHANGED <<argv, before, git, current_version, next_version,
                   stdout, stderr, exit_code>>

\* line 109
update_backend ==
    /\ pc = "update_backend"
    /\ update_manifest("backend/Cargo.toml")
    /\ pc' = "update_changelog"
    /\ UNCHANGED <<argv, before, git, current_version, next_version,
                   stdout, stderr, exit_code>>

\* subprocess.run of a git command (lines 15-17)
run(done, cmd) == Append(done, <<"run", cmd>>)

\* mutant of DiffStdout: the diff taken against the working tree
DiffStdoutWorkingTree ==
    IF git.tag_changelog = files["CHANGELOG.md"] THEN <<>> ELSE <<"diff --git">>

\* stdout of `git diff <tag> HEAD -- CHANGELOG.md`: empty when the changelog
\* at the tag and the changelog at HEAD are the same
DiffStdout ==
    IF git.tag_changelog = git.head_changelog THEN <<>> ELSE <<"diff --git">>

\* the dates datetime.now(utc) may format to
Dates == {"2026-11-02", "2026-11-03"}

\* mutant of RewriteChangelog: the check for a second header left out
RewriteChangelogNoMultipleCheck(done, formatted_date) ==
    LET path == "CHANGELOG.md"
        content == files[path]
        new_header == NewHeader(next_version, formatted_date)
        new_content == ReplaceFirst(content, HEADER_KEY, new_header)
    IN  IF content = new_content
        THEN /\ error(done, <<"no unreleased version section found">>)
             /\ UNCHANGED files
        ELSE /\ write(done, path,
                      ReplaceAll(new_content, new_header,
                                 ReleaseBlock(next_version, formatted_date, argv[2])))
             /\ pc' = "print"
             /\ UNCHANGED <<stderr, exit_code>>

\* lines 83-99: the rewrite of the changelog, once the diff check is over
RewriteChangelog(done, formatted_date) ==
    LET path == "CHANGELOG.md"
        content == files[path]
        new_header == NewHeader(next_version, formatted_date)
        new_content == ReplaceFirst(content, HEADER_KEY, new_header)
    IN  IF content = new_content
        THEN /\ error(done, <<"no unreleased version section found">>)
             /\ UNCHANGED files
        ELSE IF new_content # ReplaceAll(new_content, HEADER_KEY, new_header)
        THEN /\ error(done, <<"multiple unreleased version sections found">>)
             /\ UNCHANGED files
        ELSE /\ write(done, path,
                      ReplaceAll(new_content, new_header,
                                 ReleaseBlock(next_version, formatted_date, argv[2])))
             /\ pc' = "print"
             /\ UNCHANGED <<stderr, exit_code>>

\* mutant of update_changelog: git diff run whether or not a tag was found
update_changelog_always_diff ==
    /\ pc = "update_changelog"
    /\ \E formatted_date \in Dates :
          LET listed == run(events, "git rev-list")
              diffed == run(listed, "git diff")
          IN  IF Len(git.diff_stderr) > 0
              THEN /\ error(diffed, git.diff_stderr)
                   /\ UNCHANGED files
              ELSE IF Len(DiffStdout) = 0
              THEN /\ error(diffed, <<"no changes have been made to the changelog">>)
                   /\ UNCHANGED files
              ELSE RewriteChangelog(diffed, formatted_date)
    /\ UNCHANGED <<argv, before, git, current_version, next_version, stdout>>

\* lines 69-99, called on line 110
update_changelog ==
    /\ pc = "update_changelog"
    /\ \E formatted_date \in Dates :
          LET listed == run(events, "git rev-list")
              last_version == IF git.tagged THEN <<"rev">> ELSE <<>>
              diffed == run(listed, "git diff")
          IN  IF Len(last_version) > 0
              THEN IF Len(git.diff_stderr) > 0
                   THEN /\ error(diffed, git.diff_stderr)
                        /\ UNCHANGED files
                   ELSE IF Len(DiffStdout) = 0
                   THEN /\ error(diffed, <<"no changes have been made to the changelog">>)
                        /\ UNCHANGED files
                   ELSE RewriteChangelog(diffed, formatted_date)
              ELSE RewriteChangelog(listed, formatted_date)
    /\ UNCHANGED <<argv, before, git, current_version, next_version, stdout>>

\* line 131: print the version bump_version returned; the script ends
print_version ==
    /\ pc = "print"
    /\ stdout' = Append(stdout, next_version)
    /\ events' = Append(events, <<"stdout">>)
    /\ exit_code' = 0
    /\ pc' = "exit"
    /\ UNCHANGED <<argv, files, before, git, current_version, next_version, stderr>>

Next ==
    \/ Main
    \/ ComputeVersions
    \/ update_version_file
    \/ update_hocfile
    \/ update_frontend
    \/ update_backend
    \/ update_changelog
    \/ print_version

-----------------------------------------------------------------------------
(* The inputs of a run *)

VersionAlphabet == {"0", "9", ".", "x", "sup2"}

\* every string of at most n characters
Strings(n) == UNION {[1..k -> VersionAlphabet] : k \in 0..n}

\* every sequence of at most n blocks of the given kinds
Shapes(kinds, n) == UNION {[1..k -> kinds] : k \in 0..n}

RECURSIVE Concat(_)
Concat(texts) == IF Len(texts) = 0 THEN <<>> ELSE texts[1] \o Concat(Tail(texts))

\* the text of a file made of the blocks of a shape
Expand(shape, blocks) == Concat([i \in 1..Len(shape) |-> blocks[shape[i]]])

DefaultVersion == <<"0", ".", "9", ".", "9">>
DefaultPatch == <<"0", ".", "9", ".", "1", "0">>
OtherVersion == <<"7", ".", "7", ".", "7">>

PatternKinds == {"old", "other", "text"}

HocfileBlocks(version) ==
    [old   |-> HocfilePattern(version) \o <<"\n">>,
     other |-> HocfilePattern(OtherVersion) \o <<"\n">>,
     text  |-> <<"name: signal-inspector\n">>]

ManifestBlocks(version) ==
    [old   |-> ManifestPattern(version) \o <<"\n">>,
     other |-> ManifestPattern(OtherVersion) \o <<"\n">>,
     text  |-> <<"edition = \"2021\"\n">>]

ChangelogKinds == {"unreleased", "dated", "text"}

ChangelogBlocks ==
    [unreleased |-> HEADER_KEY \o <<"\n">>,
     dated      |-> NewHeader(DefaultPatch, "2026-11-02") \o <<"\n">>,
     text       |-> <<"- a change\n">>]

DefaultChangelog == Expand(<<"text", "unreleased", "text">>, ChangelogBlocks)
TaggedChangelog == <<"# Changelog at the last tag\n">>

Levels == {"major", "minor", "patch"}
Owner == "spelbryggeriet"

Argvs == {<<>>, <<"major">>, <<"bogus", Owner>>} \cup {<<l, Owner>> : l \in Levels}

Untagged ==
    [tagged |-> FALSE, diff_stderr |-> <<>>, tag_changelog |-> <<>>,
     head_changelog |-> <<>>]

\* a repository with a tag: the changelog at the tag and at HEAD is the
\* working tree's or an earlier text, and git diff may report an error
Tagged(changelog) ==
    [tagged : {TRUE},
     diff_stderr : {<<>>, <<"fatal: bad revision">>},
     tag_changelog : {changelog, TaggedChangelog},
     head_changelog : {changelog, TaggedChangelog}]

InitWith(a, version, hocfile, frontend, backend, changelog, g) ==
    /\ argv = a
    /\ files = [n \in FileNames |->
                   CASE n = "VERSION" -> version
                     [] n = "hocfile.yaml" -> hocfile
                     [] n = "frontend/Cargo.toml" -> frontend
                     [] n = "backend/Cargo.toml" -> backend
                     [] n = "CHANGELOG.md" -> changelog]
    /\ before = files
    /\ git = g
    /\ pc = "main"
    /\ current_version = <<>>
    /\ next_version = <<>>
    /\ stdout = <<>>
    /\ stderr = <<>>
    /\ exit_code = NoExit
    /\ events = <<>>

\* every VERSION content, with the other files in order
InitVersions ==
    \E l \in Levels, version \in Strings(MaxVerLen) :
        InitWith(<<l, Owner>>, version,
                 Expand(<<"text", "old">>, HocfileBlocks(version)),
                 Expand(<<"text", "old">>, ManifestBlocks(version)),
                 Expand(<<"text", "old">>, ManifestBlocks(version)),
                 DefaultChangelog, Untagged)

\* every hocfile and frontend manifest content, with a backend manifest that
\* holds the old version or does not
InitPatternFiles ==
    \E h \in Shapes(PatternKinds, MaxBlocks), f \in Shapes(PatternKinds, MaxBlocks),
       b \in {<<"old">>, <<"text", "other">>} :
        InitWith(<<"minor", Owner>>, DefaultVersion,
                 Expand(h, HocfileBlocks(DefaultVersion)),
                 Expand(f, ManifestBlocks(DefaultVersion)),
                 Expand(b, ManifestBlocks(DefaultVersion)),
                 DefaultChangelog, Untagged)

\* every command line, changelog content and repository
InitChangelog ==
    \E a \in Argvs, version \in {DefaultVersion, <<"0", ".", "9">>},
       c \in Shapes(ChangelogKinds, MaxChangelogBlocks) :
        \E g \in {Untagged} \cup Tagged(Expand(c, ChangelogBlocks)) :
            InitWith(a, version,
                     Expand(<<"old">>, HocfileBlocks(version)),
                     Expand(<<"old">>, ManifestBlocks(version)),
                     Expand(<<"old">>, ManifestBlocks(version)),
                     Expand(c, ChangelogBlocks), g)

Init == InitVersions \/ InitPatternFiles \/ InitChangelog

Spec == Init /\ [][Next]_vars

-----------------------------------------------------------------------------
(* Vocabulary of the properties *)

\* a.b.c with a, b and c non-empty strings of decimal digits: p and q are
\* the places of the two dots
DotsOf(v) ==
    {pq \in (1..Len(v)) \X (1..Len(v)) :
        /\ 1 < pq[1] /\ pq[1] + 1 < pq[2] /\ pq[2] < Len(v)
        /\ \A i \in 1..Len(v) :
              IF i = pq[1] \/ i = pq[2] THEN v[i] = "." ELSE IsDecimal(v[i])}

IsValidVersion(v) == DotsOf(v) # {}

\* the three components of a valid version
ComponentsOf(v) ==
    LET pq == CHOOSE d \in DotsOf(v) : TRUE
    IN  <<SubSeq(v, 1, pq[1] - 1), SubSeq(v, pq[1] + 1, pq[2] - 1),
          SubSeq(v, pq[2] + 1, Len(v))>>

RECURSIVE Power10(_)
Power10(n) == IF n = 0 THEN 1 ELSE 10 * Power10(n - 1)

RECURSIVE NumericValue(_)
\* the number a string of decimal digits denotes, most significant digit first
NumericValue(digits) ==
    IF Len(digits) = 0 THEN 0
    ELSE DigitValue(Head(digits)) * Power10(Len(digits) - 1) + NumericValue(Tail(digits))

Reported(msg) == \E i \in 1..Len(stderr) : stderr[i] = <<"error:">> \o msg

InvalidVersionReported ==
    Reported(<<"\"">> \o current_version \o <<"\" version number invalid">>)

Happened(event) == \E i \in 1..Len(events) : events[i] = event

\* the command line names a level and an owner
ArgumentsAccepted == Len(argv) >= 2 /\ argv[1] \in Levels

\* get_next_version has been called and is over
VersionsComputed == ArgumentsAccepted /\ pc \notin {"main", "bump_version"}

LevelIndex == CASE argv[1] = "major" -> 1 [] argv[1] = "minor" -> 2 [] argv[1] = "patch" -> 3

-----------------------------------------------------------------------------
(* C1: for every valid version a.b.c and every level, get_next_version     *)
(* returns a version whose component at the level is the old one plus 1,   *)
(* whose later components are 0 and whose earlier components have the      *)
(* numeric value they had.                                                 *)
C1_BumpIncrementsAndResets ==
    (VersionsComputed /\ IsValidVersion(current_version)) =>
        /\ IsValidVersion(next_version)
        /\ LET old == ComponentsOf(current_version)
               new == ComponentsOf(next_version)
           IN  /\ NumericValue(new[LevelIndex]) = NumericValue(old[LevelIndex]) + 1
               /\ \A j \in 1..3 : j > LevelIndex => new[j] = <<"0">>
               /\ \A j \in 1..3 :
                      j < LevelIndex => NumericValue(new[j]) = NumericValue(old[j])

\* 09.9.9 bumped at minor gives 09.10.0: a carry, a reset and a leading zero kept
C1_Witness ==
    /\ pc = "update_version_file"
    /\ argv[1] = "minor"
    /\ current_version = <<"0", "9", ".", "9", ".", "9">>
    /\ next_version = <<"0", "9", ".", "1", "0", ".", "0">>

(* C2: get_next_version reports the invalid-version error exactly for the  *)
(* version strings that are not three non-empty components of decimal      *)
(* digits, and the run ends with exit status 1 there.                      *)
C2_InvalidVersionRejected ==
    VersionsComputed =>
        /\ InvalidVersionReported <=> ~IsValidVersion(current_version)
        /\ InvalidVersionReported => (pc = "exit" /\ exit_code = 1)
        /\ IsValidVersion(current_version) => next_version # <<>>

-----------------------------------------------------------------------------
(* Vocabulary of the changelog properties *)

Contains(s, old) == \E i \in 1..Len(s) : OccursAt(s, old, i)
Occurrences(s, old) == Cardinality({i \in 1..Len(s) : OccursAt(s, old, i)})

\* the number of `## [Unreleased]` headers of the changelog the run started with
UnreleasedCount == Occurrences(before["CHANGELOG.md"], HEADER_KEY)

ChangelogUnchanged == files["CHANGELOG.md"] = before["CHANGELOG.md"]
ChangelogWritten == Happened(<<"write", "CHANGELOG.md">>)

\* update_changelog has been called and is over
ChangelogStepOver == pc \in {"print", "exit"} /\ Happened(<<"run", "git rev-list">>)

NoUnreleasedReported == Reported(<<"no unreleased version section found">>)
MultipleUnreleasedReported == Reported(<<"multiple unreleased version sections found">>)
ChangelogNotUpdatedReported == Reported(<<"no changes have been made to the changelog">>)
GitErrorReported == git.diff_stderr # <<>> /\ Reported(git.diff_stderr)
DiffCheckFailed == GitErrorReported \/ ChangelogNotUpdatedReported

(* C3 as stated: with no `## [Unreleased]` header update_changelog reports *)
(* the no-unreleased-section error, with two or more it reports the        *)
(* multiple-unreleased-sections error, and the changelog is left as it was.*)
C3_HeaderCountDecidesError ==
    ChangelogStepOver =>
        /\ UnreleasedCount = 0 => NoUnreleasedReported
        /\ UnreleasedCount >= 2 => MultipleUnreleasedReported
        /\ UnreleasedCount # 1 => ChangelogUnchanged

(* C3 amended: unless the diff check has already failed, no header gives   *)
(* the no-unreleased-section error and two or more headers give the        *)
(* multiple-unreleased-sections error; with a header count other than one  *)
(* the run ends with exit status 1 and the changelog as it was.            *)
C3_HeaderCountDecidesErrorAfterDiffCheck ==
    ChangelogStepOver =>
        /\ (UnreleasedCount = 0 /\ ~DiffCheckFailed) => NoUnreleasedReported
        /\ (UnreleasedCount >= 2 /\ ~DiffCheckFailed) => MultipleUnreleasedReported
        /\ UnreleasedCount # 1 =>
              (ChangelogUnchanged /\ ~ChangelogWritten /\ pc = "exit" /\ exit_code = 1)

\* two headers in a tagged repository whose changelog was committed since the tag
C3_Witness ==
    /\ ChangelogStepOver
    /\ git.tagged
    /\ UnreleasedCount >= 2
    /\ MultipleUnreleasedReported
    /\ ChangelogUnchanged

(* C4: on a successful run the written changelog is the old one with its   *)
(* one `## [Unreleased]` header replaced by the release block; the block   *)
(* occurs once and the result has one `## [Unreleased]` header.            *)
C4_ReleaseBlockInsertedOnce ==
    (pc \in {"print", "exit"} /\ ChangelogWritten) =>
        \E formatted_date \in Dates :
            LET old == before["CHANGELOG.md"]
                new == files["CHANGELOG.md"]
                block == ReleaseBlock(next_version, formatted_date, argv[2])
            IN  /\ UnreleasedCount = 1
                /\ \E k \in 1..Len(old) :
                      /\ OccursAt(old, HEADER_KEY, k)
                      /\ new = SubSeq(old, 1, k - 1) \o block
                                  \o SubSeq(old, k + Len(HEADER_KEY), Len(old))
                /\ Occurrences(new, block) = 1
                /\ Occurrences(new, HEADER_KEY) = 1

(* C5 as stated: with a prior tag, the changelog-not-updated error is      *)
(* reported exactly when the changelog at the tag equals the changelog of  *)
(* the working tree and git reported no error; a git error is reported.    *)
C5_DiffAgainstWorkingTree ==
    (ChangelogStepOver /\ git.tagged) =>
        /\ ChangelogNotUpdatedReported <=>
              (git.tag_changelog = before["CHANGELOG.md"] /\ git.diff_stderr = <<>>)
        /\ git.diff_stderr # <<>> => (GitErrorReported /\ exit_code = 1)

(* C5 amended: with a prior tag, the changelog-not-updated error is        *)
(* reported exactly when the changelog at the tag equals the changelog at  *)
(* HEAD and git reported no error, whatever the working tree holds; a git  *)
(* error is reported and ends the run.                                     *)
C5_DiffAgainstHead ==
    (ChangelogStepOver /\ git.tagged) =>
        /\ ChangelogNotUpdatedReported <=>
              (git.tag_changelog = git.head_changelog /\ git.diff_stderr = <<>>)
        /\ ChangelogNotUpdatedReported => (exit_code = 1 /\ ChangelogUnchanged)
        /\ git.diff_stderr # <<>> =>
              (GitErrorReported /\ exit_code = 1 /\ ChangelogUnchanged)

\* the changelog was edited in the working tree and not committed
C5_Witness ==
    /\ ChangelogStepOver
    /\ git.tagged
    /\ git.tag_changelog = git.head_changelog
    /\ git.tag_changelog # before["CHANGELOG.md"]
    /\ ChangelogNotUpdatedReported

(* C6: with no prior tag git diff is not run, neither the git error nor    *)
(* the changelog-not-updated error is reported, and the changelog step     *)
(* ends as the number of `## [Unreleased]` headers decides.                *)
C6_NoTagSkipsDiffCheck ==
    (ChangelogStepOver /\ ~git.tagged) =>
        /\ ~Happened(<<"run", "git diff">>)
        /\ ~ChangelogNotUpdatedReported
        /\ \A i \in 1..Len(stderr) :
              stderr[i] \in {<<"error:", "no unreleased version section found">>,
                             <<"error:", "multiple unreleased version sections found">>}
        /\ UnreleasedCount = 0 => (NoUnreleasedReported /\ exit_code = 1)
        /\ UnreleasedCount = 1 => (ChangelogWritten /\ stderr = <<>> /\ exit_code # 1)
        /\ UnreleasedCount >= 2 => (MultipleUnreleasedReported /\ exit_code = 1)

C6_Witness ==
    /\ ChangelogStepOver
    /\ ~git.tagged
    /\ UnreleasedCount = 0
    /\ NoUnreleasedReported

-----------------------------------------------------------------------------
(* Vocabulary of the file properties *)

\* new is old with its first occurrence of pattern replaced, or old itself
\* when pattern does not occur
FirstOccurrenceReplaced(old, new, pattern, replacement) ==
    IF ~Contains(old, pattern) THEN new = old
    ELSE \E k \in 1..Len(old) :
            /\ OccursAt(old, pattern, k)
            /\ \A j \in 1..(k - 1) : ~OccursAt(old, pattern, j)
            /\ new = SubSeq(old, 1, k - 1) \o replacement
                        \o SubSeq(old, k + Len(pattern), Len(old))

AfterHocfile == pc \in {"update_frontend", "update_backend", "update_changelog", "print"}
                    \/ (pc = "exit" /\ Happened(<<"write", "hocfile.yaml">>))
AfterFrontend == pc \in {"update_backend", "update_changelog", "print"}
                    \/ (pc = "exit" /\ Happened(<<"write", "frontend/Cargo.toml">>))
AfterBackend == pc \in {"update_changelog", "print"}
                    \/ (pc = "exit" /\ Happened(<<"write", "backend/Cargo.toml">>))

ManifestUpdated(path) ==
    FirstOccurrenceReplaced(before[path], files[path], ManifestPattern(current_version),
                            ManifestPattern(next_version))

(* C7: update_hocfile and update_manifest replace only the first           *)
(* occurrence of the old version pattern, keep every later occurrence and  *)
(* all other text, leave the file as it was when the pattern is absent,    *)
(* and raise no error: the run goes on to the next step.                   *)
C7_FirstOccurrenceOnly ==
    /\ AfterHocfile =>
          FirstOccurrenceReplaced(before["hocfile.yaml"], files["hocfile.yaml"],
                                  HocfilePattern(current_version),
                                  HocfilePattern(next_version))
    /\ AfterFrontend => ManifestUpdated("frontend/Cargo.toml")
    /\ AfterBackend => ManifestUpdated("backend/Cargo.toml")
    /\ (pc = "exit" /\ Happened(<<"write", "VERSION">>)) =>
          /\ AfterBackend
          /\ Happened(<<"run", "git rev-list">>)

\* a hocfile with the pattern twice and a manifest without it
C7_Witness ==
    /\ pc = "update_changelog"
    /\ Occurrences(before["hocfile.yaml"], HocfilePattern(current_version)) = 2
    /\ Occurrences(files["hocfile.yaml"], HocfilePattern(current_version)) = 1
    /\ Occurrences(files["hocfile.yaml"], HocfilePattern(next_version)) = 1
    /\ ~Contains(before["backend/Cargo.toml"], ManifestPattern(current_version))
    /\ files["backend/Cargo.toml"] = before["backend/Cargo.toml"]
    /\ before["backend/Cargo.toml"] # <<>>

-----------------------------------------------------------------------------
(* Vocabulary of the run properties *)

\* the conditions the interface lists for exit status 1
ListedFailure ==
    \/ Len(argv) < 2
    \/ argv[1] \notin Levels
    \/ ~IsValidVersion(before["VERSION"])
    \/ git.tagged /\ git.diff_stderr # <<>>
    \/ git.tagged /\ git.tag_changelog = git.head_changelog
    \/ UnreleasedCount # 1

FiveFilesWritten == \A n \in FileNames : Happened(<<"write", n>>)

(* C8: a run ends with exit status 1 after one error message, exactly when *)
(* one of the listed conditions holds and with nothing done after the      *)
(* report, or with exit status 0 and the new version printed, after all    *)
(* five files were written.                                                *)
C8_TwoOutcomes ==
    pc = "exit" =>
        /\ exit_code \in {0, 1}
        /\ exit_code = 1 <=> ListedFailure
        /\ exit_code = 1 =>
              /\ Len(stderr) = 1
              /\ Head(stderr[1]) = "error:"
              /\ events[Len(events)] = <<"stderr">>
              /\ stdout = <<>>
        /\ exit_code = 0 =>
              /\ stdout = <<next_version>>
              /\ stderr = <<>>
              /\ FiveFilesWritten
              /\ events[Len(events)] = <<"stdout">>

(* C9: whenever the run ends with exit status 1, the five files hold what  *)
(* they held before the run.                                               *)
C9_AllOrNothing == exit_code = 1 => files = before

(* C10: after a run with exit status 0 that started with the pattern of    *)
(* the version it read in the hocfile and in both manifests, VERSION is    *)
(* the printed version, the hocfile and the manifests carry it in the      *)
(* replaced field, and the changelog carries it in the dated header and    *)
(* the image tag.                                                          *)
C10_FiveLocationsAgree ==
    LET old == current_version
        new == stdout[1]
    IN  (/\ exit_code = 0
         /\ Contains(before["hocfile.yaml"], HocfilePattern(old))
         /\ Contains(before["frontend/Cargo.toml"], ManifestPattern(old))
         /\ Contains(before["backend/Cargo.toml"], ManifestPattern(old))) =>
            /\ UnreleasedCount = 1
            /\ Len(stdout) = 1
            /\ files["VERSION"] = new
            /\ FirstOccurrenceReplaced(before["hocfile.yaml"], files["hocfile.yaml"],
                                       HocfilePattern(old), HocfilePattern(new))
            /\ \A path \in {"frontend/Cargo.toml", "backend/Cargo.toml"} :
                  FirstOccurrenceReplaced(before[path], files[path],
                                          ManifestPattern(old), ManifestPattern(new))
            /\ \E formatted_date \in Dates :
                  Contains(files["CHANGELOG.md"],
                           ReleaseBlock(new, formatted_date, argv[2]))

C10_Witness ==
    /\ exit_code = 0
    /\ before["VERSION"] = DefaultVersion
    /\ stdout = << <<"0", ".", "1", "0", ".", "0">> >>
    /\ Contains(before["hocfile.yaml"], HocfilePattern(DefaultVersion))
    /\ Contains(before["frontend/Cargo.toml"], ManifestPattern(DefaultVersion))
    /\ Contains(before["backend/Cargo.toml"], ManifestPattern(DefaultVersion))
    /\ Contains(files["backend/Cargo.toml"], ManifestPattern(stdout[1]))

====
